---- MODULE Spec2Model ----
(***************************************************************************)
(* RetopoMat: a model of the add-on's operators, settings accessors and    *)
(* update handler acting on the host's objects, material slots, material   *)
(* data-blocks, modifier stacks and vertex groups.                         *)
(*                                                                         *)
(* Names are sequences of words: 'RetopoMat Retopo' is <<"RetopoMat",      *)
(* "Retopo">> and the host's numbered copy 'RetopoMat Retopo.001' is       *)
(* <<"RetopoMat", "Retopo", ".001">>, so that startswith() and exact     *)
(* lookup are computed as the code computes them.                          *)
(***************************************************************************)
EXTENDS Integers, Sequences, FiniteSets, TLC

----------------------------------------------------------------------------
(* Bounds of the model *)

\* material data-blocks the scene may hold
MaxMaterials == 4
\* modifiers added by hand that the scene may hold
MaxUserModifiers == 2
\* settings that may hold a stored value at the same time
MaxStoredKeys == 1
\* points one Poly Strip session may record
MaxPoints == 2
\* draw handlers that may be installed at the same time
MaxDrawHandlers == 2
\* faces of a mesh Flip Normals is run on, and faces Poly Strip may have
\* added to the meshes of the scene
MaxFaces == 2
\* modifiers on the stack Sort Modifiers is given
MaxStack == 4

----------------------------------------------------------------------------
(* The host's scene *)

Meshes == {"A", "B"}
Empties == {"E"}
Objects == Meshes \cup Empties
None == "None"
NoMaterial == 0

Type(o) == IF o \in Meshes THEN "MESH" ELSE "EMPTY"

VARIABLES
    active,                 \* context.active_object: an object or None
    mode,                   \* object.mode of each mesh
    slots,                  \* object.data.materials of each mesh: material ids
    matdata,                \* bpy.data.materials: id -> material
    mods,                   \* object.modifiers of each mesh
    vgroups,                \* object.vertex_groups of each mesh: names
    stored,                 \* the settings' ID properties (self[key])
    reference_object_name,  \* RetopoMatSettings.reference_object_name
    retopo_object_name,     \* RetopoMatSettings.retopo_object_name
    dialog,                 \* the object of the open Quick Shrinkwrap dialog
    last,                   \* the operation that ran last, and what it returned
    registered,             \* the modules whose register() has run
    handlers,               \* bpy.app.handlers.depsgraph_update_post
    strip,                  \* the running PolyStripOperator: object, points, lines
    draw_handlers,          \* SpaceView3D draw handlers installed by Poly Strip
    faces                   \* the faces of each mesh: selected, flipped

\* the state the material, modifier and settings code never touches
tool_vars == <<registered, handlers, strip, draw_handlers, faces>>

vars == <<active, mode, slots, matdata, mods, vgroups, stored,
          reference_object_name, retopo_object_name, dialog, last,
          registered, handlers, strip, draw_handlers, faces>>

----------------------------------------------------------------------------
(* Names *)

MaterialName(kind) ==
    CASE kind = "REFERENCE" -> <<"RetopoMat", "Reference">>
      [] kind = "RETOPO"    -> <<"RetopoMat", "Retopo">>
      [] kind = "WIREFRAME" -> <<"RetopoMat", "Wireframe">>

MaterialKinds == {"REFERENCE", "RETOPO", "WIREFRAME"}

ModifierName(kind) ==
    CASE kind = "DISPLACE"  -> <<"RetopoMat", "Displace">>
      [] kind = "SOLIDIFY"  -> <<"RetopoMat", "Solidify">>
      [] kind = "WIREFRAME" -> <<"RetopoMat", "Wireframe">>

\* the enum's iteration order
ModifierKinds == <<"DISPLACE", "SOLIDIFY", "WIREFRAME">>

ModifierNames == {ModifierName(ModifierKinds[i]) : i \in 1..3}

SHRINKWRAP_TANGENT == <<"RetopoMat", "Shrinkwrap", "Tangent">>
CORRECTIVE_SMOOTH == <<"RetopoMat", "Corrective", "Smooth">>
SHRINKWRAP_NEAREST == <<"RetopoMat", "Shrinkwrap", "Nearest">>
VERTEX_GROUP == <<"RetopoMat", "Quick", "Shrinkwrap">>

ShrinkwrapModifiers == <<SHRINKWRAP_TANGENT, CORRECTIVE_SMOOTH, SHRINKWRAP_NEAREST>>

\* str.startswith
StartsWith(name, prefix) ==
    /\ Len(name) >= Len(prefix)
    /\ SubSeq(name, 1, Len(prefix)) = prefix

Min(S) == CHOOSE x \in S : \A y \in S : x <= y

\* the numbers the host appends to a name that is taken
Suffix == <<".001", ".002", ".003", ".004", ".005", ".006", ".007", ".008">>

\* the host's unique naming: the name itself, or its first free numbered copy
UniqueName(name, used) ==
    IF name \notin used THEN name
    ELSE Append(name, Suffix[Min({k \in 1..Len(Suffix) : Append(name, Suffix[k]) \notin used})])

Names(stack) == [i \in 1..Len(stack) |-> stack[i].name]
NameSet(stack) == {stack[i].name : i \in 1..Len(stack)}

----------------------------------------------------------------------------
(* Settings store *)

BoolKeys == {"reference_blend", "retopo_blend", "displace_visibility",
             "solidify_visibility", "wireframe_visibility"}
FloatKeys == {"displace_strength", "solidify_thickness", "wireframe_thickness"}
ColorKeys == {"reference_color", "retopo_color"}
Keys == BoolKeys \cup FloatKeys \cup ColorKeys

\* lengths in hundredths, colour components in tenths
DefaultLength == 2
OtherLength == 5
ReferenceAlpha == 8
RetopoAlpha == 2
Opaque == 10

ReferenceColorDefault == <<"grey", ReferenceAlpha>>
RetopoColorDefault == <<"blue", RetopoAlpha>>
Colors == {ReferenceColorDefault, <<"red", Opaque>>}
Lengths == {DefaultLength, OtherLength}

KeyValues(key) ==
    IF key \in BoolKeys THEN BOOLEAN
    ELSE IF key \in FloatKeys THEN Lengths
    ELSE Colors

get_default(key) ==
    CASE key = "reference_blend"      -> TRUE
      [] key = "reference_color"      -> ReferenceColorDefault
      [] key = "retopo_blend"         -> FALSE
      [] key = "retopo_color"         -> RetopoColorDefault
      [] key = "displace_visibility"  -> FALSE
      [] key = "displace_strength"    -> DefaultLength
      [] key = "solidify_visibility"  -> FALSE
      [] key = "solidify_thickness"   -> DefaultLength
      [] key = "wireframe_visibility" -> TRUE
      [] key = "wireframe_thickness"  -> DefaultLength

\* self.get(key, default): stored is a function on the keys that were set
get_internal(key) ==
    IF key \in DOMAIN stored THEN stored[key] ELSE get_default(key)

set_internal(key, value) ==
    [k \in (DOMAIN stored) \cup {key} |-> IF k = key THEN value ELSE stored[k]]

reference_object ==
    IF reference_object_name \in Objects THEN reference_object_name ELSE None

retopo_object ==
    IF retopo_object_name \in Objects THEN retopo_object_name ELSE None

----------------------------------------------------------------------------
(* Material manager *)

\* _find_material: the first slot whose material's name starts with the name
_find_material(md, o, kind) ==
    IF o \in Objects /\ Type(o) = "MESH"
    THEN LET hits == {i \in 1..Len(slots[o]) :
                        StartsWith(md[slots[o][i]].name, MaterialName(kind))}
         IN  IF hits = {} THEN NoMaterial ELSE slots[o][Min(hits)]
    ELSE NoMaterial

_check_reference_material(m) == m.use_nodes /\ m.principled
_check_retopo_material(m) == m.use_nodes /\ m.principled
_check_wireframe_material(m) == m.use_nodes

check_material(m, kind) ==
    CASE kind = "REFERENCE" -> _check_reference_material(m)
      [] kind = "RETOPO"    -> _check_retopo_material(m)
      [] kind = "WIREFRAME" -> _check_wireframe_material(m)

BlendMethod(blend) == IF blend THEN "BLEND" ELSE "OPAQUE"

\* a colour setting is <<rgb, alpha>>; the node keeps a four-component Base
\* Color and a separate Alpha
_setup_reference_material(m) ==
    LET color == get_internal("reference_color")
    IN  [m EXCEPT !.blend_method = BlendMethod(get_internal("reference_blend")),
                  !.use_nodes = TRUE, !.principled = TRUE,
                  !.base_color = color, !.alpha = color[2]]

_setup_retopo_material(m) ==
    LET color == get_internal("retopo_color")
    IN  [m EXCEPT !.blend_method = BlendMethod(get_internal("retopo_blend")),
                  !.use_nodes = TRUE, !.principled = TRUE,
                  !.base_color = color, !.alpha = color[2]]

_setup_wireframe_material(m) ==
    [m EXCEPT !.blend_method = BlendMethod(get_internal("retopo_blend")),
              !.use_nodes = TRUE, !.principled = TRUE,
              !.base_color = <<"black", Opaque>>, !.alpha = Opaque]

setup_material(m, kind) ==
    CASE kind = "REFERENCE" -> _setup_reference_material(m)
      [] kind = "RETOPO"    -> _setup_retopo_material(m)
      [] kind = "WIREFRAME" -> _setup_wireframe_material(m)

\* bpy.data.materials.new(name): a fresh data-block under a unique name
NewMaterial(md, name) ==
    [name |-> UniqueName(name, {md[i].name : i \in 1..Len(md)}),
     blend_method |-> "OPAQUE", use_nodes |-> FALSE, principled |-> FALSE,
     base_color |-> <<"white", Opaque>>, alpha |-> Opaque]

\* a get_material(create=True) that makes a new data-block every time
get_material_always_new(md, o, kind) ==
    LET md1 == Append(md, NewMaterial(md, MaterialName(kind)))
    IN  [md |-> [md1 EXCEPT ![Len(md1)] = setup_material(md1[Len(md1)], kind)],
         id |-> Len(md1)]

\* get_material(object, name, create=True): the data-blocks afterwards and
\* the material returned
get_material_create(md, o, kind) ==
    LET found == _find_material(md, o, kind)
        md1 == IF found = NoMaterial
               THEN Append(md, NewMaterial(md, MaterialName(kind)))
               ELSE md
        id == IF found = NoMaterial THEN Len(md1) ELSE found
    IN  [md |-> [md1 EXCEPT ![id] = setup_material(md1[id], kind)], id |-> id]

\* get_material(object, name): found on the object, else on the remembered
\* reference or retopo object; an invalid material is set up again when the
\* context is writable (check_context) and is dropped otherwise
get_material(md, o, kind, writable) ==
    LET onObject == _find_material(md, o, kind)
        found == IF onObject # NoMaterial THEN onObject
                 ELSE IF kind = "REFERENCE"
                      THEN _find_material(md, reference_object, kind)
                      ELSE _find_material(md, retopo_object, kind)
    IN  IF found = NoMaterial THEN [md |-> md, id |-> NoMaterial]
        ELSE IF check_material(md[found], kind) THEN [md |-> md, id |-> found]
        ELSE IF writable
             THEN [md |-> [md EXCEPT ![found] = setup_material(md[found], kind)],
                   id |-> found]
             ELSE [md |-> md, id |-> NoMaterial]

\* a set_materials that appends without clearing
set_materials_no_clear(sl, o, materials) ==
    IF o \in Objects /\ Type(o) = "MESH" THEN [sl EXCEPT ![o] = @ \o materials] ELSE sl

\* set_materials: clear the slots, then append the given materials
set_materials(sl, o, materials) ==
    IF o \in Objects /\ Type(o) = "MESH" THEN [sl EXCEPT ![o] = materials] ELSE sl

----------------------------------------------------------------------------
(* Modifier manager *)

NoModifier == [obj |-> None, idx |-> 0]

\* object.modifiers.find(name): the position of the modifier of that name
Find(stack, name) ==
    LET hits == {i \in 1..Len(stack) : stack[i].name = name}
    IN  IF hits = {} THEN 0 ELSE Min(hits)

_find_modifier(ms, o, kind) ==
    IF o \in Objects /\ Type(o) = "MESH" /\ Find(ms[o], ModifierName(kind)) # 0
    THEN [obj |-> o, idx |-> Find(ms[o], ModifierName(kind))]
    ELSE NoModifier

VisibilityKey(kind) ==
    CASE kind = "DISPLACE"  -> "displace_visibility"
      [] kind = "SOLIDIFY"  -> "solidify_visibility"
      [] kind = "WIREFRAME" -> "wireframe_visibility"

LengthKey(kind) ==
    CASE kind = "DISPLACE"  -> "displace_strength"
      [] kind = "SOLIDIFY"  -> "solidify_thickness"
      [] kind = "WIREFRAME" -> "wireframe_thickness"

_setup_displace_modifier(m) ==
    [m EXCEPT !.show_viewport = get_internal("displace_visibility"),
              !.length = get_internal("displace_strength")]

_setup_solidify_modifier(m) ==
    [m EXCEPT !.show_viewport = get_internal("solidify_visibility"),
              !.length = get_internal("solidify_thickness")]

_setup_wireframe_modifier(m) ==
    [m EXCEPT !.show_viewport = get_internal("wireframe_visibility"),
              !.length = get_internal("wireframe_thickness")]

setup_modifier(m, kind) ==
    CASE kind = "DISPLACE"  -> _setup_displace_modifier(m)
      [] kind = "SOLIDIFY"  -> _setup_solidify_modifier(m)
      [] kind = "WIREFRAME" -> _setup_wireframe_modifier(m)

\* object.modifiers.new(name, type): appended under a unique name
NewModifier(stack, name) ==
    Append(stack, [name |-> UniqueName(name, NameSet(stack)),
                   show_viewport |-> TRUE, length |-> 0])

\* a get_modifier(create=True) that makes a new modifier every time
get_modifier_always_new(ms, o, kind) ==
    LET st1 == NewModifier(ms[o], ModifierName(kind))
    IN  [ms EXCEPT ![o] = [st1 EXCEPT ![Len(st1)] = setup_modifier(st1[Len(st1)], kind)]]

\* a get_modifier(create=True) that sets up only the modifier it has made
get_modifier_setup_new(ms, o, kind) ==
    LET found == _find_modifier(ms, o, kind)
        st1 == NewModifier(ms[o], ModifierName(kind))
    IN  IF found = NoModifier
        THEN [ms EXCEPT ![o] = [st1 EXCEPT ![Len(st1)] = setup_modifier(st1[Len(st1)], kind)]]
        ELSE ms

\* get_modifier(object, name, create=True): the stacks afterwards
get_modifier_create(ms, o, kind) ==
    LET found == _find_modifier(ms, o, kind)
        st1 == IF found = NoModifier THEN NewModifier(ms[o], ModifierName(kind)) ELSE ms[o]
        idx == IF found = NoModifier THEN Len(st1) ELSE found.idx
    IN  [ms EXCEPT ![o] = [st1 EXCEPT ![idx] = setup_modifier(st1[idx], kind)]]

\* a get_modifier that looks on the given object only
get_modifier_no_fallback(ms, o, kind) == _find_modifier(ms, o, kind)

\* get_modifier(object, name): on the object, else on the remembered retopo object
get_modifier(ms, o, kind) ==
    IF _find_modifier(ms, o, kind) # NoModifier
    THEN _find_modifier(ms, o, kind)
    ELSE _find_modifier(ms, retopo_object, kind)

Remove(stack, i) == SubSeq(stack, 1, i - 1) \o SubSeq(stack, i + 1, Len(stack))

RemoveNamed(stack, name) ==
    IF Find(stack, name) # 0 THEN Remove(stack, Find(stack, name)) ELSE stack

RemoveFound(ms, o, kind) ==
    LET found == _find_modifier(ms, o, kind)
    IN  IF found # NoModifier THEN [ms EXCEPT ![o] = Remove(ms[o], found.idx)] ELSE ms

\* a remove_modifiers that stops after the first modifier it has removed
remove_modifiers_first(ms, o) ==
    IF _find_modifier(ms, o, "DISPLACE") # NoModifier THEN RemoveFound(ms, o, "DISPLACE")
    ELSE IF _find_modifier(ms, o, "SOLIDIFY") # NoModifier THEN RemoveFound(ms, o, "SOLIDIFY")
    ELSE RemoveFound(ms, o, "WIREFRAME")

\* a remove_modifiers that clears the whole stack
remove_modifiers_clear(ms, o) == [ms EXCEPT ![o] = <<>>]

\* remove_modifiers: each retopo modifier that is found is removed
remove_modifiers(ms, o) ==
    RemoveFound(RemoveFound(RemoveFound(ms, o, "DISPLACE"), o, "SOLIDIFY"), o, "WIREFRAME")

\* _move_modifier: the modifier at position `from` ends at position `to`
_move_modifier(stack, from, to) ==
    LET rest == Remove(stack, from)
    IN  SubSeq(rest, 1, to - 1) \o <<stack[from]>> \o SubSeq(rest, to, Len(rest))

MoveNamed(stack, name, to) ==
    IF Find(stack, name) # 0 THEN _move_modifier(stack, Find(stack, name), to) ELSE stack

MoveFound(ms, o, kind, to) ==
    LET found == _find_modifier(ms, o, kind)
    IN  IF found # NoModifier
        THEN [ms EXCEPT ![o] = _move_modifier(ms[o], found.idx, to)]
        ELSE ms

\* the name the host gives a mirror modifier; a modifier under this name or
\* a numbered copy of it stands for a modifier of type MIRROR
MIRROR == <<"Mirror">>

\* get_mirror_modifier(object): the position of the first mirror modifier of
\* the stack, 0 when it has none
get_mirror_modifier(stack) ==
    LET hits == {i \in 1..Len(stack) : StartsWith(stack[i].name, MIRROR)}
    IN  IF hits = {} THEN 0 ELSE Min(hits)

\* get_mirror_modifier(object, create=True): a stack without a mirror
\* modifier gets a new one, moved to the top
get_mirror_modifier_create(stack) ==
    IF get_mirror_modifier(stack) # 0 THEN stack
    ELSE _move_modifier(NewModifier(stack, MIRROR), Len(stack) + 1, 1)

\* a sort_modifiers that moves to the index before the last
sort_modifiers_before_last(ms, o) ==
    LET index == Len(ms[o]) - 1
    IN  IF index < 1 THEN ms
        ELSE MoveFound(MoveFound(MoveFound(ms, o, "DISPLACE", index),
                                 o, "SOLIDIFY", index), o, "WIREFRAME", index)

\* sort_modifiers: each retopo modifier found moves to the last index
sort_modifiers(ms, o) ==
    LET index == Len(ms[o])
    IN  MoveFound(MoveFound(MoveFound(ms, o, "DISPLACE", index),
                            o, "SOLIDIFY", index), o, "WIREFRAME", index)

----------------------------------------------------------------------------
(* Shrinkwrap chain *)

RemoveGroup(groups, name) ==
    LET hits == {i \in 1..Len(groups) : groups[i] = name}
    IN  IF hits = {} THEN groups
        ELSE SubSeq(groups, 1, Min(hits) - 1) \o SubSeq(groups, Min(hits) + 1, Len(groups))

\* setup_shrinkwrap, the vertex groups: a leftover group is removed and, in
\* edit mode, a new group is made and given the name
setup_shrinkwrap_groups(groups, objectMode) ==
    LET cleared == RemoveGroup(groups, VERTEX_GROUP)
    IN  IF objectMode = "EDIT" THEN Append(cleared, VERTEX_GROUP) ELSE cleared

\* setup_shrinkwrap, the modifiers: three new modifiers, then each is moved
\* by its own name to the top of the stack
setup_shrinkwrap_modifiers(stack) ==
    LET n == Len(stack)
        st3 == NewModifier(NewModifier(NewModifier(stack,
                   SHRINKWRAP_TANGENT), CORRECTIVE_SMOOTH), SHRINKWRAP_NEAREST)
        m1 == MoveNamed(st3, st3[n + 1].name, 1)
        m2 == MoveNamed(m1, st3[n + 2].name, 2)
    IN  MoveNamed(m2, st3[n + 3].name, 3)

\* a removal of the chain that forgets its last modifier
RemoveChainButLast(stack) ==
    RemoveNamed(RemoveNamed(stack, SHRINKWRAP_TANGENT), CORRECTIVE_SMOOTH)

RemoveChain(stack) ==
    RemoveNamed(RemoveNamed(RemoveNamed(stack,
        SHRINKWRAP_TANGENT), CORRECTIVE_SMOOTH), SHRINKWRAP_NEAREST)

\* apply_shrinkwrap: the visible modifiers after the first three are hidden
\* for the bake, the chain is removed by name, the hidden ones are shown
\* again. A hidden modifier that was removed by name is a dangling reference
\* in the last loop: the loop either writes through it and goes on, or stops
\* there (`stops`), leaving the later ones hidden and the mode unrestored.
OriginalModifiers(stack) ==
    {i \in 4..Len(stack) : stack[i].show_viewport}

Dangling(stack) ==
    {i \in OriginalModifiers(stack) : stack[i].name \notin NameSet(RemoveChain(stack))}

apply_shrinkwrap_modifiers(stack, stops) ==
    LET removed == RemoveChain(stack)
        lost == IF stops /\ Dangling(stack) # {}
                THEN {stack[i].name : i \in {j \in OriginalModifiers(stack) :
                                                 j > Min(Dangling(stack))}}
                ELSE {}
    IN  [i \in 1..Len(removed) |->
            IF removed[i].name \in lost
            THEN [removed[i] EXCEPT !.show_viewport = FALSE]
            ELSE removed[i]]

apply_shrinkwrap_mode(stack, objectMode, stops) ==
    IF stops /\ Dangling(stack) # {} THEN "OBJECT" ELSE objectMode

\* clean_shrinkwrap: the chain and the vertex group are removed by name
clean_shrinkwrap_modifiers(stack) == RemoveChain(stack)

clean_shrinkwrap_groups(groups) == RemoveGroup(groups, VERTEX_GROUP)
----------------------------------------------------------------------------
(* Settings accessors: each getter returns the material data-blocks as it
   leaves them (get_material may set an invalid material up again) and the
   value read; each setter returns the data-blocks, the modifier stacks and
   the stored values as it leaves them *)

_get_reference_blend(writable) ==
    LET r == get_material(matdata, active, "REFERENCE", writable)
    IN  [md |-> r.md,
         val |-> IF r.id # NoMaterial THEN r.md[r.id].blend_method # "OPAQUE"
                 ELSE get_internal("reference_blend")]

_set_reference_blend(value, writable) ==
    LET r == get_material(matdata, active, "REFERENCE", writable)
    IN  [md |-> IF r.id # NoMaterial
                THEN [r.md EXCEPT ![r.id].blend_method = BlendMethod(value)]
                ELSE r.md,
         ms |-> mods,
         st |-> set_internal("reference_blend", value)]

_get_reference_color(writable) ==
    LET r == get_material(matdata, active, "REFERENCE", writable)
    IN  [md |-> r.md,
         val |-> IF r.id # NoMaterial
                 THEN <<r.md[r.id].base_color[1], r.md[r.id].alpha>>
                 ELSE get_internal("reference_color")]

\* a _set_reference_color that writes the whole value to Base Color and
\* leaves the Alpha input alone
_set_reference_color_base_only(value, writable) ==
    LET r == get_material(matdata, active, "REFERENCE", writable)
    IN  [md |-> IF r.id # NoMaterial
                THEN [r.md EXCEPT ![r.id].base_color = value]
                ELSE r.md,
         ms |-> mods,
         st |-> set_internal("reference_color", value)]

_set_reference_color(value, writable) ==
    LET r == get_material(matdata, active, "REFERENCE", writable)
    IN  [md |-> IF r.id # NoMaterial
                THEN [r.md EXCEPT ![r.id].base_color = <<value[1], Opaque>>,
                                  ![r.id].alpha = value[2]]
                ELSE r.md,
         ms |-> mods,
         st |-> set_internal("reference_color", value)]

_get_retopo_blend(writable) ==
    LET r == get_material(matdata, active, "RETOPO", writable)
    IN  [md |-> r.md,
         val |-> IF r.id # NoMaterial THEN r.md[r.id].blend_method # "OPAQUE"
                 ELSE get_internal("retopo_blend")]

_set_retopo_blend(value, writable) ==
    LET r == get_material(matdata, active, "RETOPO", writable)
        w == get_material(r.md, active, "WIREFRAME", writable)
        md1 == IF r.id # NoMaterial
               THEN [w.md EXCEPT ![r.id].blend_method = BlendMethod(value)]
               ELSE w.md
    IN  [md |-> IF w.id # NoMaterial
                THEN [md1 EXCEPT ![w.id].blend_method = BlendMethod(value)]
                ELSE md1,
         ms |-> mods,
         st |-> set_internal("retopo_blend", value)]

_get_retopo_color(writable) ==
    LET r == get_material(matdata, active, "RETOPO", writable)
    IN  [md |-> r.md,
         val |-> IF r.id # NoMaterial
                 THEN <<r.md[r.id].base_color[1], r.md[r.id].alpha>>
                 ELSE get_internal("retopo_color")]

_set_retopo_color(value, writable) ==
    LET r == get_material(matdata, active, "RETOPO", writable)
    IN  [md |-> IF r.id # NoMaterial
                THEN [r.md EXCEPT ![r.id].base_color = <<value[1], Opaque>>,
                                  ![r.id].alpha = value[2]]
                ELSE r.md,
         ms |-> mods,
         st |-> set_internal("retopo_color", value)]

\* _get_displace_visibility, _get_solidify_visibility, _get_wireframe_visibility
_get_visibility(kind) ==
    LET m == get_modifier(mods, active, kind)
    IN  [md |-> matdata,
         val |-> IF m # NoModifier THEN mods[m.obj][m.idx].show_viewport
                 ELSE get_internal(VisibilityKey(kind))]

\* _set_displace_visibility, _set_solidify_visibility, _set_wireframe_visibility
_set_visibility(kind, value) ==
    LET m == get_modifier(mods, active, kind)
    IN  [md |-> matdata,
         ms |-> IF m # NoModifier
                THEN [mods EXCEPT ![m.obj][m.idx].show_viewport = value]
                ELSE mods,
         st |-> set_internal(VisibilityKey(kind), value)]

\* _get_displace_strength, _get_solidify_thickness, _get_wireframe_thickness
_get_length(kind) ==
    LET m == get_modifier(mods, active, kind)
    IN  [md |-> matdata,
         val |-> IF m # NoModifier THEN mods[m.obj][m.idx].length
                 ELSE get_internal(LengthKey(kind))]

\* _set_displace_strength, _set_solidify_thickness, _set_wireframe_thickness
_set_length(kind, value) ==
    LET m == get_modifier(mods, active, kind)
    IN  [md |-> matdata,
         ms |-> IF m # NoModifier
                THEN [mods EXCEPT ![m.obj][m.idx].length = value]
                ELSE mods,
         st |-> set_internal(LengthKey(kind), value)]

KindOf(key) ==
    CASE key \in {"displace_visibility", "displace_strength"}    -> "DISPLACE"
      [] key \in {"solidify_visibility", "solidify_thickness"}   -> "SOLIDIFY"
      [] key \in {"wireframe_visibility", "wireframe_thickness"} -> "WIREFRAME"

\* the property's get= function
Getter(key, writable) ==
    CASE key = "reference_blend" -> _get_reference_blend(writable)
      [] key = "reference_color" -> _get_reference_color(writable)
      [] key = "retopo_blend"    -> _get_retopo_blend(writable)
      [] key = "retopo_color"    -> _get_retopo_color(writable)
      [] key \in {"displace_visibility", "solidify_visibility",
                  "wireframe_visibility"} -> _get_visibility(KindOf(key))
      [] key \in FloatKeys -> _get_length(KindOf(key))

\* the property's set= function
Setter(key, value, writable) ==
    CASE key = "reference_blend" -> _set_reference_blend(value, writable)
      [] key = "reference_color" -> _set_reference_color(value, writable)
      [] key = "retopo_blend"    -> _set_retopo_blend(value, writable)
      [] key = "retopo_color"    -> _set_retopo_color(value, writable)
      [] key \in {"displace_visibility", "solidify_visibility",
                  "wireframe_visibility"} -> _set_visibility(KindOf(key), value)
      [] key \in FloatKeys -> _set_length(KindOf(key), value)

----------------------------------------------------------------------------
(* Initial state: a scene with two mesh objects and an empty; the first
   mesh carries one material of the user's *)

UserMaterial ==
    [name |-> <<"Material">>, blend_method |-> "OPAQUE", use_nodes |-> TRUE,
     principled |-> TRUE, base_color |-> <<"white", Opaque>>, alpha |-> Opaque]

NoLast == [op |-> "none", obj |-> None, key |-> "", val |-> FALSE, again |-> FALSE]

\* what an operation leaves in `last`; `again` says that an operator ran
\* twice in a row on the same object; `val` is the value a setting was given,
\* and after Add Retopo Materials whether a modifier was there with live
\* values other than the stored ones
Ran(op, o) ==
    [op |-> op, obj |-> o, key |-> "", val |-> FALSE,
     again |-> (op \in {"AddReferenceMaterial", "AddRetopoMaterials"}
                /\ last.op = op /\ last.obj = o)]

\* no Poly Strip operator is running
NoStrip == [running |-> FALSE, object |-> None, points |-> <<>>, lines |-> <<>>]

\* the modules __init__.register registers, in its order
Modules == <<"props", "ops", "ui">>

\* the add-on as __init__.register leaves it, no modal operator running,
\* meshes without faces
InitTools ==
    /\ registered = {Modules[i] : i \in 1..Len(Modules)}
    /\ handlers = <<>>
    /\ strip = NoStrip
    /\ draw_handlers = 0
    /\ faces = [o \in Meshes |-> <<>>]

Init ==
    /\ InitTools
    /\ active = None
    /\ mode = [o \in Meshes |-> "OBJECT"]
    /\ slots = [o \in Meshes |-> IF o = "A" THEN <<1>> ELSE <<>>]
    /\ matdata = <<UserMaterial>>
    /\ mods = [o \in Meshes |-> <<>>]
    /\ vgroups = [o \in Meshes |-> <<>>]
    /\ stored = [k \in {} |-> FALSE]
    /\ reference_object_name = ""
    /\ retopo_object_name = ""
    /\ dialog = None
    /\ last = NoLast

----------------------------------------------------------------------------
(* Scenes the user has already worked on: every mesh is of one of a few
   kinds, built from one table of material data-blocks *)

\* a material as get_material(create=True) leaves it with nothing stored
SceneMaterial(kind) ==
    [name |-> MaterialName(kind),
     blend_method |-> BlendMethod(get_default(
         IF kind = "REFERENCE" THEN "reference_blend" ELSE "retopo_blend")),
     use_nodes |-> TRUE, principled |-> TRUE,
     base_color |-> CASE kind = "REFERENCE" -> get_default("reference_color")
                      [] kind = "RETOPO"    -> get_default("retopo_color")
                      [] kind = "WIREFRAME" -> <<"black", Opaque>>,
     alpha |-> CASE kind = "REFERENCE" -> get_default("reference_color")[2]
                 [] kind = "RETOPO"    -> get_default("retopo_color")[2]
                 [] kind = "WIREFRAME" -> Opaque]

SceneMaterials ==
    <<UserMaterial, SceneMaterial("REFERENCE"), SceneMaterial("RETOPO"),
      SceneMaterial("WIREFRAME")>>

\* a modifier as get_modifier(create=True) leaves it with nothing stored
SceneModifier(kind) ==
    [name |-> ModifierName(kind),
     show_viewport |-> get_default(VisibilityKey(kind)),
     length |-> get_default(LengthKey(kind))]

RetopoStack ==
    <<SceneModifier("DISPLACE"), SceneModifier("SOLIDIFY"), SceneModifier("WIREFRAME")>>

SceneSlots(kind) ==
    CASE kind = "plain"     -> <<>>
      [] kind = "user"      -> <<1>>
      [] kind = "reference" -> <<2>>
      [] kind = "retopo"    -> <<3, 4>>
      [] kind = "wireframe" -> <<1, 4>>
      [] kind = "modifiers" -> <<1>>
      [] kind = "both"      -> <<3, 4, 2>>

SceneMods(kind) ==
    CASE kind \in {"retopo", "both"} -> RetopoStack
      [] kind = "modifiers" -> <<SceneModifier("SOLIDIFY")>>
      [] OTHER -> <<>>

\* the table with at most one material made invalid by hand: its nodes
\* turned off, or its Principled BSDF node deleted
BrokenTables ==
    {SceneMaterials}
    \cup {[SceneMaterials EXCEPT ![i].use_nodes = FALSE] : i \in 2..4}
    \cup {[SceneMaterials EXCEPT ![i].principled = FALSE] : i \in 2..4}

Used(id) == \E o \in Meshes : \E i \in 1..Len(slots[o]) : slots[o][i] = id

InitScene(kinds, actives, remembered) ==
    /\ active \in actives
    /\ mode = [o \in Meshes |-> "OBJECT"]
    /\ \E ka \in kinds, kb \in kinds :
          /\ slots = [o \in Meshes |-> SceneSlots(IF o = "A" THEN ka ELSE kb)]
          /\ mods = [o \in Meshes |-> SceneMods(IF o = "A" THEN ka ELSE kb)]
    /\ vgroups = [o \in Meshes |-> <<>>]
    /\ stored = [k \in {} |-> FALSE]
    /\ reference_object_name \in remembered
    /\ retopo_object_name \in remembered
    /\ dialog = None
    /\ last = NoLast

----------------------------------------------------------------------------
(* The user and the host *)

\* the user makes an object active, or none
SetActive(o) ==
    /\ dialog = None
    /\ active' = o
    /\ last' = Ran("SetActive", o)
    /\ UNCHANGED <<mode, slots, matdata, mods, vgroups, stored,
                   reference_object_name, retopo_object_name, dialog>>
    /\ UNCHANGED tool_vars

\* the user switches the active mesh between object mode and edit mode
ToggleMode ==
    /\ dialog = None
    /\ active \in Meshes
    /\ mode' = [mode EXCEPT ![active] = IF @ = "OBJECT" THEN "EDIT" ELSE "OBJECT"]
    /\ last' = Ran("ToggleMode", active)
    /\ UNCHANGED <<active, slots, matdata, mods, vgroups, stored,
                   reference_object_name, retopo_object_name, dialog>>
    /\ UNCHANGED tool_vars

\* names the user may give to a modifier added by hand
UserModifierNames == {<<"Mirror">>, SHRINKWRAP_TANGENT}

UserModifiers(stack) ==
    {i \in 1..Len(stack) :
        \E n \in UserModifierNames : StartsWith(stack[i].name, n)}

RECURSIVE Sum(_, _)
Sum(f, S) ==
    IF S = {} THEN 0
    ELSE LET x == CHOOSE y \in S : TRUE IN f[x] + Sum(f, S \ {x})

\* the user adds a modifier by hand: it lands at the bottom of the stack
UserAddModifier(name, show) ==
    /\ dialog = None
    /\ active \in Meshes
    /\ Sum([o \in Meshes |-> Cardinality(UserModifiers(mods[o]))], Meshes)
          < MaxUserModifiers
    /\ mods' = [mods EXCEPT ![active] =
                    Append(@, [name |-> UniqueName(name, NameSet(@)),
                               show_viewport |-> show, length |-> 0])]
    /\ last' = Ran("UserAddModifier", active)
    /\ UNCHANGED <<active, mode, slots, matdata, vgroups, stored,
                   reference_object_name, retopo_object_name, dialog>>
    /\ UNCHANGED tool_vars

----------------------------------------------------------------------------
(* Operators *)

\* AddReferenceMaterialOperator.poll, AddRetopoMaterialsOperator.poll,
\* RemoveMaterialsOperator.poll
PollObjectMode_any_mode ==
    active \in Objects /\ Type(active) = "MESH"

PollObjectMode ==
    active \in Objects /\ Type(active) = "MESH" /\ mode[active] = "OBJECT"

AddReferenceMaterial ==
    /\ dialog = None
    /\ PollObjectMode
    /\ LET r == get_material_create(matdata, active, "REFERENCE")
       IN  /\ Len(r.md) <= MaxMaterials
           /\ matdata' = r.md
           /\ slots' = set_materials(slots, active, <<r.id>>)
    /\ mods' = remove_modifiers(mods, active)
    /\ last' = Ran("AddReferenceMaterial", active)
    /\ UNCHANGED <<active, mode, vgroups, stored,
                   reference_object_name, retopo_object_name, dialog>>
    /\ UNCHANGED tool_vars

\* the object carries a retopo modifier whose live values are not the stored
\* settings
Stale(o) ==
    \E i \in 1..3 :
        LET m == _find_modifier(mods, o, ModifierKinds[i])
        IN  /\ m # NoModifier
            /\ mods[m.obj][m.idx] # setup_modifier(mods[m.obj][m.idx], ModifierKinds[i])

AddRetopoMaterials ==
    /\ dialog = None
    /\ PollObjectMode
    /\ LET r == get_material_create(matdata, active, "RETOPO")
           w == get_material_create(r.md, active, "WIREFRAME")
       IN  /\ Len(w.md) <= MaxMaterials
           /\ matdata' = w.md
           /\ slots' = set_materials(slots, active, <<r.id, w.id>>)
    /\ mods' = get_modifier_create(get_modifier_create(get_modifier_create(
                    mods, active, "DISPLACE"), active, "SOLIDIFY"), active, "WIREFRAME")
    /\ last' = [Ran("AddRetopoMaterials", active) EXCEPT !.val = Stale(active)]
    /\ UNCHANGED <<active, mode, vgroups, stored,
                   reference_object_name, retopo_object_name, dialog>>
    /\ UNCHANGED tool_vars

RemoveMaterials ==
    /\ dialog = None
    /\ PollObjectMode
    /\ slots' = set_materials(slots, active, <<>>)
    /\ mods' = remove_modifiers(mods, active)
    /\ last' = Ran("RemoveMaterials", active)
    /\ UNCHANGED <<active, mode, matdata, vgroups, stored,
                   reference_object_name, retopo_object_name, dialog>>
    /\ UNCHANGED tool_vars

\* SortModifiersOperator.poll
PollSortModifiers ==
    \E i \in 1..3 : get_modifier(mods, active, ModifierKinds[i]) # NoModifier

\* SortModifiersOperator.execute: with no active object sort_modifiers raises
\* (`last.val`); on an active object that is no mesh it finds no modifier
\* and returns with nothing changed; `last.key` says whether the stack changed
SortModifiers ==
    /\ dialog = None
    /\ PollSortModifiers
    /\ mods' = IF active \in Meshes THEN sort_modifiers(mods, active) ELSE mods
    /\ last' = [Ran("SortModifiers", active) EXCEPT
                    !.key = IF mods' = mods THEN "kept" ELSE "moved",
                    !.val = (active = None)]
    /\ UNCHANGED <<active, mode, slots, matdata, vgroups, stored,
                   reference_object_name, retopo_object_name, dialog>>
    /\ UNCHANGED tool_vars

\* MirrorModifierOperator.poll
PollMirrorModifier == active \in Objects /\ Type(active) = "MESH"

\* MirrorModifierOperator.invoke, which ends in execute: a mirror modifier
\* the object has is read and written back as it is; without one, a new one
\* is put on top of the stack and mirrors across the reference object, when
\* one is remembered and is not the object itself. `last.key` says which.
\* The axes and the other options of the mirror are not part of the state
MirrorModifier ==
    /\ dialog = None
    /\ PollMirrorModifier
    /\ LET found == get_mirror_modifier(mods[active])
           mirror_object == IF reference_object # None /\ reference_object # active
                            THEN reference_object ELSE None
           stack == get_mirror_modifier_create(mods[active])
       IN  /\ mods' = IF found # 0 THEN mods
                      ELSE [mods EXCEPT ![active] =
                              <<[name |-> stack[1].name,
                                 show_viewport |-> stack[1].show_viewport,
                                 length |-> stack[1].length,
                                 mirror_object |-> mirror_object]>>
                              \o Tail(stack)]
           /\ last' = [Ran("MirrorModifier", active) EXCEPT
                           !.key = IF found # 0 THEN "found" ELSE "created"]
    /\ UNCHANGED <<active, mode, slots, matdata, vgroups, stored,
                   reference_object_name, retopo_object_name, dialog>>
    /\ UNCHANGED tool_vars

\* QuickShrinkwrapOperator.poll
PollQuickShrinkwrap == active \in Objects /\ Type(active) = "MESH"

\* QuickShrinkwrapOperator.invoke: the chain is set up and the dialog opens
QuickShrinkwrapInvoke ==
    /\ dialog = None
    /\ PollQuickShrinkwrap
    /\ vgroups' = [vgroups EXCEPT ![active] = setup_shrinkwrap_groups(@, mode[active])]
    /\ mods' = [mods EXCEPT ![active] = setup_shrinkwrap_modifiers(@)]
    /\ dialog' = active
    /\ last' = Ran("QuickShrinkwrapInvoke", active)
    /\ UNCHANGED <<active, mode, slots, matdata, stored,
                   reference_object_name, retopo_object_name>>
    /\ UNCHANGED tool_vars

\* QuickShrinkwrapOperator.execute: OK in the dialog applies the chain
QuickShrinkwrapExecute(stops) ==
    /\ dialog # None
    /\ mods' = [mods EXCEPT ![active] = apply_shrinkwrap_modifiers(@, stops)]
    /\ vgroups' = [vgroups EXCEPT ![active] = clean_shrinkwrap_groups(@)]
    /\ mode' = [mode EXCEPT ![active] = apply_shrinkwrap_mode(mods[active], @, stops)]
    /\ dialog' = None
    /\ last' = Ran("QuickShrinkwrapExecute", active)
    /\ UNCHANGED <<active, slots, matdata, stored,
                   reference_object_name, retopo_object_name>>
    /\ UNCHANGED tool_vars

\* QuickShrinkwrapOperator.cancel: leaving the dialog removes the chain
QuickShrinkwrapCancel ==
    /\ dialog # None
    /\ mods' = [mods EXCEPT ![active] = clean_shrinkwrap_modifiers(@)]
    /\ vgroups' = [vgroups EXCEPT ![active] = clean_shrinkwrap_groups(@)]
    /\ dialog' = None
    /\ last' = Ran("QuickShrinkwrapCancel", active)
    /\ UNCHANGED <<active, mode, slots, matdata, stored,
                   reference_object_name, retopo_object_name>>
    /\ UNCHANGED tool_vars

----------------------------------------------------------------------------
(* Update handler *)

\* an update_handler that looks for the retopo materials and modifiers first
update_handler_retopo_first ==
    /\ dialog = None
    /\ IF active \in Objects /\ Type(active) = "MESH"
       THEN IF \/ \E k \in {"RETOPO", "WIREFRAME"} :
                     _find_material(matdata, active, k) # NoMaterial
               \/ \E i \in 1..3 :
                     _find_modifier(mods, active, ModifierKinds[i]) # NoModifier
            THEN /\ retopo_object_name' = active
                 /\ UNCHANGED reference_object_name
            ELSE IF _find_material(matdata, active, "REFERENCE") # NoMaterial
            THEN /\ reference_object_name' = active
                 /\ UNCHANGED retopo_object_name
            ELSE UNCHANGED <<reference_object_name, retopo_object_name>>
       ELSE UNCHANGED <<reference_object_name, retopo_object_name>>
    /\ last' = Ran("update_handler", active)
    /\ UNCHANGED <<active, mode, slots, matdata, mods, vgroups, stored, dialog>>
    /\ UNCHANGED tool_vars

\* update_handler: the active mesh is remembered as the reference object when
\* it has a reference material, else as the retopo object when it has a
\* retopo or wireframe material or any retopo modifier
update_handler ==
    /\ dialog = None
    /\ IF active \in Objects /\ Type(active) = "MESH"
       THEN IF _find_material(matdata, active, "REFERENCE") # NoMaterial
            THEN /\ reference_object_name' = active
                 /\ UNCHANGED retopo_object_name
            ELSE IF \E k \in {"RETOPO", "WIREFRAME"} :
                        _find_material(matdata, active, k) # NoMaterial
            THEN /\ retopo_object_name' = active
                 /\ UNCHANGED reference_object_name
            ELSE IF \E i \in 1..3 :
                        _find_modifier(mods, active, ModifierKinds[i]) # NoModifier
            THEN /\ retopo_object_name' = active
                 /\ UNCHANGED reference_object_name
            ELSE UNCHANGED <<reference_object_name, retopo_object_name>>
       ELSE UNCHANGED <<reference_object_name, retopo_object_name>>
    /\ last' = Ran("update_handler", active)
    /\ UNCHANGED <<active, mode, slots, matdata, mods, vgroups, stored, dialog>>
    /\ UNCHANGED tool_vars

----------------------------------------------------------------------------
(* Poly Strip: the modal operator. The events of the modal loop are the
   actions; the ray casts are inputs: the object or location hit, or None *)

\* locations on a surface that a ray cast may return
Locations == {"p", "q"}

\* PolyStripOperator.poll
PollPolyStrip ==
    active \in Objects /\ Type(active) = "MESH" /\ mode[active] = "EDIT"

\* PolyStripOperator.invoke: the fields are reset, the draw handler is
\* installed and the operator becomes modal
PolyStripInvoke ==
    /\ dialog = None
    /\ ~strip.running
    /\ PollPolyStrip
    /\ draw_handlers < MaxDrawHandlers
    /\ strip' = [running |-> TRUE, object |-> None, points |-> <<>>, lines |-> <<>>]
    /\ draw_handlers' = draw_handlers + 1
    /\ last' = Ran("PolyStripInvoke", active)
    /\ UNCHANGED <<active, mode, slots, matdata, mods, vgroups, stored,
                   reference_object_name, retopo_object_name, dialog,
                   registered, handlers, faces>>

\* modal, LEFTMOUSE PRESS: the scene ray cast, with the active object hidden,
\* picks the surface object it hits
PolyStripPress(hit) ==
    /\ strip.running
    /\ hit # active
    /\ strip' = IF hit = None THEN strip ELSE [strip EXCEPT !.object = hit]
    /\ last' = [Ran("PolyStripPress", active) EXCEPT
                    !.key = IF hit = None THEN "miss" ELSE "hit"]
    /\ UNCHANGED <<active, mode, slots, matdata, mods, vgroups, stored,
                   reference_object_name, retopo_object_name, dialog,
                   registered, handlers, draw_handlers, faces>>

\* modal, RIGHTMOUSE or ESC: the cursor is restored and the operator ends
PolyStripCancel ==
    /\ strip.running
    /\ strip' = [strip EXCEPT !.running = FALSE]
    /\ last' = Ran("PolyStripCancel", active)
    /\ UNCHANGED <<active, mode, slots, matdata, mods, vgroups, stored,
                   reference_object_name, retopo_object_name, dialog,
                   registered, handlers, draw_handlers, faces>>

\* a MOUSEMOVE that records the location without asking for a picked object
PolyStripMove_no_surface(hit) ==
    /\ strip.running
    /\ Len(strip.points) < MaxPoints
    /\ strip' = IF hit # None
                THEN [strip EXCEPT
                        !.points = Append(@, hit),
                        !.lines = IF Len(strip.points) + 1 > 1
                                  THEN @ \o <<strip.points[Len(strip.points)], hit>>
                                  ELSE @]
                ELSE strip
    /\ last' = [Ran("PolyStripMove", active) EXCEPT
                    !.key = IF hit = None THEN "miss" ELSE "hit"]
    /\ UNCHANGED <<active, mode, slots, matdata, mods, vgroups, stored,
                   reference_object_name, retopo_object_name, dialog,
                   registered, handlers, draw_handlers, faces>>

\* modal, MOUSEMOVE: with a surface object picked, the ray cast against it
\* records the location it hits; without one the event passes through
PolyStripMove(hit) ==
    /\ strip.running
    /\ Len(strip.points) < MaxPoints
    /\ strip' = IF strip.object # None /\ hit # None
                THEN [strip EXCEPT
                        !.points = Append(@, hit),
                        !.lines = IF Len(strip.points) + 1 > 1
                                  THEN @ \o <<strip.points[Len(strip.points)], hit>>
                                  ELSE @]
                ELSE strip
    /\ last' = [Ran("PolyStripMove", active) EXCEPT
                    !.key = IF strip.object = None THEN "pass"
                            ELSE IF hit = None THEN "miss" ELSE "hit"]
    /\ UNCHANGED <<active, mode, slots, matdata, mods, vgroups, stored,
                   reference_object_name, retopo_object_name, dialog,
                   registered, handlers, draw_handlers, faces>>

\* the faces of a mesh as the host delivers it: up to MaxFaces faces in
\* their original orientation, any of them selected
FaceLists ==
    UNION {[1..n -> {[select |-> sel, flipped |-> FALSE] : sel \in BOOLEAN}] :
              n \in 0..MaxFaces}

\* modal, LEFTMOUSE RELEASE: without a picked surface object the event passes
\* through. With one, the draw handler is removed and execute runs, whether or
\* not a point was recorded (with none, the host clamps the count -1 given to
\* spline.points.add to 0): bm.from_mesh adds the faces of the mesh the node
\* group evaluates to, with the selection flags they carry, to the edit mesh
\* of the active object. That mesh is the input `built`: the node group is
\* not part of the repository's code. When the active object has left edit
\* mode bmesh.from_edit_mesh raises and no face is added; `last.key` says
\* which, and whether no point was recorded
PolyStripRelease(built) ==
    /\ strip.running
    /\ LET bakes == /\ strip.object # None
                     /\ active \in Meshes
                     /\ mode[active] = "EDIT"
       IN  /\ bakes => Sum([o \in Meshes |-> Len(faces[o])], Meshes) + Len(built)
                          <= MaxFaces
           /\ IF strip.object # None
              THEN /\ draw_handlers' = draw_handlers - 1
                   /\ strip' = [strip EXCEPT !.running = FALSE]
                   /\ faces' = IF bakes
                               THEN [faces EXCEPT ![active] = @ \o built]
                               ELSE faces
                   /\ last' = [Ran("PolyStripExecute", active) EXCEPT
                                   !.key = IF strip.points = <<>> THEN "no point"
                                           ELSE IF bakes THEN "baked" ELSE "raised"]
              ELSE /\ UNCHANGED <<draw_handlers, strip, faces>>
                   /\ last' = [Ran("PolyStripRelease", active) EXCEPT !.key = "pass"]
    /\ UNCHANGED <<active, mode, slots, matdata, mods, vgroups, stored,
                   reference_object_name, retopo_object_name, dialog,
                   registered, handlers>>

----------------------------------------------------------------------------
(* Flip Normals *)

\* face.normal_flip()
normal_flip(face) == [face EXCEPT !.flipped = ~@]

FlipWhere(fs, which) ==
    [i \in 1..Len(fs) |-> IF i \in which THEN normal_flip(fs[i]) ELSE fs[i]]

\* a flip_normals that flips every face in edit mode as well
flip_normals_every_face(fs, objectMode) ==
    FlipWhere(fs, 1..Len(fs))

\* flip_normals: in edit mode the selected faces, or all the faces when none
\* is selected; in any other mode all the faces
flip_normals(fs, objectMode) ==
    IF objectMode = "EDIT"
    THEN LET selected == {i \in 1..Len(fs) : fs[i].select}
         IN  FlipWhere(fs, IF selected # {} THEN selected ELSE 1..Len(fs))
    ELSE FlipWhere(fs, 1..Len(fs))

\* FlipNormalsOperator.poll
PollFlipNormals == active \in Objects /\ Type(active) = "MESH"

\* FlipNormalsOperator.execute; `last.key` says which faces it was to flip
FlipNormals ==
    /\ dialog = None
    /\ PollFlipNormals
    /\ faces' = [faces EXCEPT ![active] = flip_normals(@, mode[active])]
    /\ last' = [Ran("FlipNormals", active) EXCEPT
                    !.key = IF /\ mode[active] = "EDIT"
                               /\ \E i \in 1..Len(faces[active]) : faces[active][i].select
                            THEN "selected" ELSE "all"]
    /\ UNCHANGED <<active, mode, slots, matdata, mods, vgroups, stored,
                   reference_object_name, retopo_object_name, dialog,
                   registered, handlers, strip, draw_handlers>>

----------------------------------------------------------------------------
(* Registration *)

\* a module's register(): utils.register appends the update handler, the
\* other modules register classes only
module_register(m, h) == IF m = "utils" THEN Append(h, "update_handler") ELSE h

\* what list.remove(x) gives when x is not in the list
ValueError == <<"ValueError">>

\* a module's unregister(): utils.unregister removes the first occurrence of
\* the update handler, and raises when there is none
module_unregister(m, h) ==
    IF m = "utils"
    THEN LET hits == {i \in 1..Len(h) : h[i] = "update_handler"}
         IN  IF hits = {} THEN ValueError
             ELSE SubSeq(h, 1, Min(hits) - 1) \o SubSeq(h, Min(hits) + 1, Len(h))
    ELSE h

RECURSIVE RegisterAll(_, _)
RegisterAll(ms, h) ==
    IF ms = <<>> THEN h ELSE RegisterAll(Tail(ms), module_register(Head(ms), h))

\* the modules in reverse; a module that raises ends the loop, and the
\* modules not reached stay registered
RECURSIVE UnregisterAll(_, _)
UnregisterAll(ms, h) ==
    IF ms = <<>> THEN [modules |-> {}, handlers |-> h]
    ELSE LET left == module_unregister(ms[Len(ms)], h)
         IN  IF left = ValueError
             THEN [modules |-> {ms[i] : i \in 1..Len(ms) - 1}, handlers |-> h]
             ELSE UnregisterAll(SubSeq(ms, 1, Len(ms) - 1), left)

\* __init__.register: every module of `modules` is registered
Register ==
    /\ registered = {}
    /\ registered' = {Modules[i] : i \in 1..Len(Modules)}
    /\ handlers' = RegisterAll(Modules, handlers)
    /\ last' = Ran("register", active)
    /\ UNCHANGED <<active, mode, slots, matdata, mods, vgroups, stored,
                   reference_object_name, retopo_object_name, dialog,
                   strip, draw_handlers, faces>>

\* __init__.unregister: every module of `modules` is unregistered, in reverse
Unregister ==
    /\ registered # {}
    /\ registered' = UnregisterAll(Modules, handlers).modules
    /\ handlers' = UnregisterAll(Modules, handlers).handlers
    /\ last' = Ran("unregister", active)
    /\ UNCHANGED <<active, mode, slots, matdata, mods, vgroups, stored,
                   reference_object_name, retopo_object_name, dialog,
                   strip, draw_handlers, faces>>

\* the host's depsgraph_update_post event: the installed handlers run
DepsgraphUpdate ==
    IF \E i \in 1..Len(handlers) : handlers[i] = "update_handler"
    THEN update_handler
    ELSE /\ last' = Ran("depsgraph_update", active)
         /\ UNCHANGED <<active, mode, slots, matdata, mods, vgroups, stored,
                        reference_object_name, retopo_object_name, dialog>>
         /\ UNCHANGED tool_vars

----------------------------------------------------------------------------
(* Settings *)

\* the panel reads a setting: the property's getter runs
ReadSetting(key, writable) ==
    /\ dialog = None
    /\ LET r == Getter(key, writable)
       IN  /\ matdata' = r.md
           /\ last' = Ran("ReadSetting", active)
    /\ UNCHANGED <<active, mode, slots, mods, vgroups, stored,
                   reference_object_name, retopo_object_name, dialog>>
    /\ UNCHANGED tool_vars

\* the user edits a setting: the property's setter runs
WriteSetting(key, value, writable) ==
    /\ dialog = None
    /\ key \in DOMAIN stored \/ Cardinality(DOMAIN stored) < MaxStoredKeys
    /\ LET r == Setter(key, value, writable)
       IN  /\ matdata' = r.md
           /\ mods' = r.ms
           /\ stored' = r.st
    /\ last' = [Ran("WriteSetting", active) EXCEPT !.key = key, !.val = value]
    /\ UNCHANGED <<active, mode, slots, vgroups,
                   reference_object_name, retopo_object_name, dialog>>
    /\ UNCHANGED tool_vars

----------------------------------------------------------------------------
(* Specification *)

\* the material operators and the modifier sort, with the user changing the
\* active object, the mode and the stack
Next ==
    \/ \E o \in Objects \cup {None} : SetActive(o)
    \/ ToggleMode
    \/ UserAddModifier(<<"Mirror">>, TRUE)
    \/ MirrorModifier
    \/ AddReferenceMaterial
    \/ AddRetopoMaterials
    \/ RemoveMaterials
    \/ SortModifiers

Spec == Init /\ [][Next]_vars

\* Quick Shrinkwrap sessions on objects that carry other modifiers
NextShrinkwrap ==
    \/ \E o \in Objects \cup {None} : SetActive(o)
    \/ ToggleMode
    \/ \E n \in UserModifierNames, show \in BOOLEAN : UserAddModifier(n, show)
    \/ QuickShrinkwrapInvoke
    \/ \E stops \in BOOLEAN : QuickShrinkwrapExecute(stops)
    \/ QuickShrinkwrapCancel

SpecShrinkwrap == Init /\ [][NextShrinkwrap]_vars

\* the update handler on scenes of every kind
InitHandler ==
    /\ InitTools
    /\ InitScene({"plain", "user", "reference", "retopo", "wireframe", "modifiers", "both"},
                 {None}, {""})
    /\ matdata = SceneMaterials

NextHandler ==
    \/ \E o \in Objects \cup {None} : SetActive(o)
    \/ update_handler

SpecHandler == InitHandler /\ [][NextHandler]_vars

\* the modifier settings read and written while retopo objects come and go
ModifierKeys ==
    {"displace_visibility", "solidify_visibility", "wireframe_visibility"} \cup FloatKeys

NextSettings ==
    \/ \E o \in Meshes \cup {None} : SetActive(o)
    \/ AddRetopoMaterials
    \/ RemoveMaterials
    \/ update_handler
    \/ \E k \in ModifierKeys : ReadSetting(k, TRUE)
    \/ \E k \in ModifierKeys : \E v \in KeyValues(k) : WriteSetting(k, v, TRUE)

SpecSettings == Init /\ [][NextSettings]_vars

\* every setting written and read back, on scenes where the material or the
\* modifier is on the active object, on a remembered object, or nowhere
InitRoundTrip ==
    /\ InitTools
    /\ InitScene({"plain", "reference", "retopo"}, {"A", None}, {"", "B"})
    /\ matdata \in BrokenTables
    /\ \A i \in 2..4 : matdata[i] # SceneMaterials[i] => Used(i)
    /\ (reference_object_name = "" /\ retopo_object_name = "")
          => (slots["B"] = <<>> /\ mods["B"] = <<>>)

MaterialKeys == {"reference_blend", "reference_color", "retopo_blend", "retopo_color"}

NextRoundTrip ==
    \/ \E k \in MaterialKeys, w \in BOOLEAN : ReadSetting(k, w)
    \/ \E k \in ModifierKeys : ReadSetting(k, FALSE)
    \/ \E k \in MaterialKeys, w \in BOOLEAN :
          \E v \in KeyValues(k) : WriteSetting(k, v, w)
    \/ \E k \in ModifierKeys : \E v \in KeyValues(k) : WriteSetting(k, v, TRUE)

SpecRoundTrip == InitRoundTrip /\ [][NextRoundTrip]_vars

\* Poly Strip sessions: the user makes a mesh active, enters edit mode,
\* starts the operator and sends it mouse events
NextPolyStrip ==
    \/ \E o \in Objects \cup {None} : ~strip.running /\ SetActive(o)
    \/ ToggleMode
    \/ PolyStripInvoke
    \/ \E hit \in Meshes \cup {None} : PolyStripPress(hit)
    \/ \E hit \in Locations \cup {None} : PolyStripMove(hit)
    \/ \E built \in FaceLists : PolyStripRelease(built)
    \/ PolyStripCancel

SpecPolyStrip == Init /\ [][NextPolyStrip]_vars

\* the add-on registered and unregistered while the user makes objects
\* active and the host reports its updates
InitAddon ==
    /\ InitScene({"plain", "user", "reference", "retopo", "modifiers", "both"}, {None}, {""})
    /\ matdata = SceneMaterials
    /\ registered = {}
    /\ handlers = <<>>
    /\ strip = NoStrip
    /\ draw_handlers = 0
    /\ faces = [o \in Meshes |-> <<>>]

NextAddon ==
    \/ Register
    \/ Unregister
    \/ \E o \in Objects \cup {None} : SetActive(o)
    \/ DepsgraphUpdate

SpecAddon == InitAddon /\ [][NextAddon]_vars

\* the modifiers a stack may hold before Sort Modifiers runs: the retopo
\* modifiers and two the user added by hand
SortPool ==
    {SceneModifier(ModifierKinds[i]) : i \in 1..3}
    \cup {[name |-> n, show_viewport |-> TRUE, length |-> 0] :
             n \in {<<"Mirror">>, <<"Mirror", ".001">>}}

\* the stacks the user can have arranged: any modifiers of the pool, each at
\* most once, in any order
SortStacks ==
    {st \in UNION {[1..n -> SortPool] : n \in 0..MaxStack} :
        \A i, j \in 1..Len(st) : st[i] = st[j] => i = j}

InitSort ==
    /\ InitTools
    /\ active = None
    /\ mode = [o \in Meshes |-> "OBJECT"]
    /\ slots = [o \in Meshes |-> <<>>]
    /\ matdata = <<UserMaterial>>
    /\ \E st \in SortStacks : mods = [o \in Meshes |-> IF o = "A" THEN st ELSE <<>>]
    /\ vgroups = [o \in Meshes |-> <<>>]
    /\ stored = [k \in {} |-> FALSE]
    /\ reference_object_name = ""
    /\ retopo_object_name \in {"", "A"}
    /\ dialog = None
    /\ last = NoLast

NextSort ==
    \/ \E o \in Objects \cup {None} : SetActive(o)
    \/ SortModifiers

SpecSort == InitSort /\ [][NextSort]_vars

\* the material operators and the start of Poly Strip, with the user
\* changing the active object and the mode
NextGate ==
    \/ \E o \in Objects \cup {None} : SetActive(o)
    \/ ToggleMode
    \/ AddReferenceMaterial
    \/ AddRetopoMaterials
    \/ RemoveMaterials
    \/ PolyStripInvoke
    \/ PolyStripCancel

SpecGate == Init /\ [][NextGate]_vars

InitFlip ==
    /\ active = None
    /\ mode = [o \in Meshes |-> "OBJECT"]
    /\ slots = [o \in Meshes |-> <<>>]
    /\ matdata = <<UserMaterial>>
    /\ mods = [o \in Meshes |-> <<>>]
    /\ vgroups = [o \in Meshes |-> <<>>]
    /\ stored = [k \in {} |-> FALSE]
    /\ reference_object_name = ""
    /\ retopo_object_name = ""
    /\ dialog = None
    /\ last = NoLast
    /\ registered = {Modules[i] : i \in 1..Len(Modules)}
    /\ handlers = <<>>
    /\ strip = NoStrip
    /\ draw_handlers = 0
    /\ \E fa \in FaceLists :
          faces = [o \in Meshes |->
                     IF o = "A" THEN fa ELSE <<[select |-> FALSE, flipped |-> FALSE]>>]

NextFlip ==
    \/ \E o \in Objects \cup {None} : SetActive(o)
    \/ ToggleMode
    \/ FlipNormals

SpecFlip == InitFlip /\ [][NextFlip]_vars

----------------------------------------------------------------------------
(* Properties of the material operators *)

HasMaterial(o, kind) ==
    \E i \in 1..Len(slots[o]) : StartsWith(matdata[slots[o][i]].name, MaterialName(kind))

Count(stack, name) == Cardinality({i \in 1..Len(stack) : stack[i].name = name})

IsRetopoModifier(m) == m.name \in ModifierNames

\* C1: after Add Retopo Materials the object's slots are exactly [retopo
\* material, wireframe material], so that slot index 1 is the wireframe
\* material, and it carries one modifier of each of the three retopo names
C1_AddRetopoMaterials ==
    last.op = "AddRetopoMaterials" =>
        /\ Len(slots[last.obj]) = 2
        /\ StartsWith(matdata[slots[last.obj][1]].name, MaterialName("RETOPO"))
        /\ StartsWith(matdata[slots[last.obj][2]].name, MaterialName("WIREFRAME"))
        /\ \A n \in ModifierNames : Count(mods[last.obj], n) = 1

\* Add Retopo Materials has run on the mesh that held the user's material
\* and carries modifiers of the user's
C1_Witness ==
    /\ last.op = "AddRetopoMaterials"
    /\ last.obj = "A"
    /\ Len(mods["A"]) > 3
    /\ ~last.again

\* C2: after Add Reference Material the object's slots are exactly
\* [reference material] and it has none of the three retopo modifiers
C2_AddReferenceMaterial ==
    last.op = "AddReferenceMaterial" =>
        /\ Len(slots[last.obj]) = 1
        /\ StartsWith(matdata[slots[last.obj][1]].name, MaterialName("REFERENCE"))
        /\ \A n \in ModifierNames : Count(mods[last.obj], n) = 0

\* Add Reference Material has run on an object that retopo materials were
\* made for before and that keeps a modifier of the user's
C2_Witness ==
    /\ last.op = "AddReferenceMaterial"
    /\ mods[last.obj] # <<>>
    /\ \E i \in 1..Len(matdata) :
          /\ StartsWith(matdata[i].name, MaterialName("RETOPO"))
          /\ ~Used(i)

\* C3: Remove Materials leaves the object with no slot and no retopo
\* modifier, every other modifier kept in its order, and the other objects
\* as they were
C3_RemoveMaterials ==
    [][last'.op = "RemoveMaterials" =>
        /\ slots'[last'.obj] = <<>>
        /\ mods'[last'.obj] =
               SelectSeq(mods[last'.obj], LAMBDA m : ~IsRetopoModifier(m))
        /\ \A n \in ModifierNames : Count(mods'[last'.obj], n) = 0
        /\ \A o \in Meshes \ {last'.obj} : mods'[o] = mods[o] /\ slots'[o] = slots[o]
    ]_vars

\* Remove Materials has run and two modifiers of the user's are left
C3_Witness ==
    /\ last.op = "RemoveMaterials"
    /\ Len(mods[last.obj]) = 2
    /\ Len(matdata) > 1

\* C4: no object ever holds two modifiers of one retopo name, and Add
\* Retopo Materials run twice in a row leaves the names and the order of
\* the stack as after the first run
C4_ModifiersIdempotent ==
    [][/\ \A o \in Meshes : \A n \in ModifierNames : Count(mods'[o], n) <= 1
       /\ (last'.op = "AddRetopoMaterials" /\ last'.again)
             => Names(mods'[last'.obj]) = Names(mods[last'.obj])
    ]_vars

\* Add Retopo Materials has run twice in a row on a stack that also holds a
\* modifier of the user's below the retopo modifiers
C4_Witness ==
    /\ last.op = "AddRetopoMaterials"
    /\ last.again
    /\ Len(mods[last.obj]) > 3
    /\ ~IsRetopoModifier(mods[last.obj][Len(mods[last.obj])])

\* the data-blocks the object's slots hold under the name of a kind
Held(sl, md, o, kind) ==
    {sl[o][i] : i \in {j \in 1..Len(sl[o]) : StartsWith(md[sl[o][j]].name, MaterialName(kind))}}

\* the operator has given the object the data-block it held under that name
\* when it held one, and has made a new data-block only when it held none
Reuses(o, kind, slot) ==
    IF Held(slots, matdata, o, kind) # {}
    THEN slots'[o][slot] \in Held(slots, matdata, o, kind)
    ELSE slots'[o][slot] > Len(matdata)

\* C5: Add Retopo Materials and Add Reference Material reuse the material
\* the object holds under the name and make a new data-block only for a name
\* the object holds no material of; run a second time they make no
\* data-block and leave the slots as they are
C5_MaterialsIdempotent ==
    [][/\ last'.op = "AddRetopoMaterials" =>
             /\ Reuses(last'.obj, "RETOPO", 1)
             /\ Reuses(last'.obj, "WIREFRAME", 2)
             /\ Len(matdata') - Len(matdata) =
                   Cardinality({k \in {"RETOPO", "WIREFRAME"} :
                                   Held(slots, matdata, last'.obj, k) = {}})
       /\ last'.op = "AddReferenceMaterial" =>
             /\ Reuses(last'.obj, "REFERENCE", 1)
             /\ Len(matdata') - Len(matdata) =
                   IF Held(slots, matdata, last'.obj, "REFERENCE") = {} THEN 1 ELSE 0
       /\ last'.again => (Len(matdata') = Len(matdata) /\ slots' = slots)
       /\ \A i \in 1..Len(matdata) : matdata'[i].name = matdata[i].name
    ]_vars

\* the operator has run a second time, with data-blocks of the same name
\* held by the other mesh
C5_Witness ==
    /\ last.op \in {"AddRetopoMaterials", "AddReferenceMaterial"}
    /\ last.again
    /\ \E o \in Meshes \ {last.obj} : slots[o] # <<>> /\ slots[o] # <<1>>

----------------------------------------------------------------------------
(* Properties of the Quick Shrinkwrap session *)

\* C6: a Quick Shrinkwrap session ended by OK or by cancel leaves the object
\* with no modifier named Shrinkwrap Tangent, Corrective Smooth or
\* Shrinkwrap Nearest and without the vertex group Quick Shrinkwrap
C6_ShrinkwrapTemporary ==
    last.op \in {"QuickShrinkwrapExecute", "QuickShrinkwrapCancel"} =>
        /\ \A i \in 1..3 : Count(mods[last.obj], ShrinkwrapModifiers[i]) = 0
        /\ \A i \in 1..Len(vgroups[last.obj]) : vgroups[last.obj][i] # VERTEX_GROUP

\* a session started in edit mode on an object with modifiers of the user's
\* has ended with OK
C6_Witness ==
    /\ last.op = "QuickShrinkwrapExecute"
    /\ mode[last.obj] = "EDIT"
    /\ Len(mods[last.obj]) = 2
    /\ dialog = None

----------------------------------------------------------------------------
(* Properties of the settings *)

\* the value last stored through the setting, or the declared default
StoredOrDefault(key) ==
    IF key \in DOMAIN stored THEN stored[key]
    ELSE CASE key \in FloatKeys -> DefaultLength
           [] key = "wireframe_visibility" -> TRUE
           [] key \in {"displace_visibility", "solidify_visibility"} -> FALSE

\* the object is a mesh with a modifier of that name
Carries(o, name) == o \in Meshes /\ \E i \in 1..Len(mods[o]) : mods[o][i].name = name

\* the live value of the setting on the modifier of that name
Live(o, key) ==
    LET m == mods[o][CHOOSE i \in 1..Len(mods[o]) :
                        mods[o][i].name = ModifierName(KindOf(key))]
    IN  IF key \in FloatKeys THEN m.length ELSE m.show_viewport

\* C7: a modifier setting reads as the live value of the modifier on the
\* active object, else as that of the modifier on the remembered retopo
\* object, else as the value stored, else as the declared default
C7_ModifierSettingRead ==
    \A key \in ModifierKeys :
        Getter(key, TRUE).val =
            IF Carries(active, ModifierName(KindOf(key))) THEN Live(active, key)
            ELSE IF Carries(retopo_object_name, ModifierName(KindOf(key)))
                 THEN Live(retopo_object_name, key)
                 ELSE StoredOrDefault(key)

\* a setting has been read while the active object has no retopo modifier
\* and the remembered retopo object has one whose live value is not the
\* stored one
C7_Witness ==
    /\ last.op = "ReadSetting"
    /\ ~Carries(active, ModifierName("DISPLACE"))
    /\ Carries(retopo_object_name, ModifierName("DISPLACE"))
    /\ "displace_strength" \in DOMAIN stored
    /\ Live(retopo_object_name, "displace_strength") # stored["displace_strength"]

\* the material of the setting that the getter reads, NoMaterial when none
ReadMaterial(key) ==
    get_material(matdata, active,
                 IF key \in {"reference_blend", "reference_color"}
                 THEN "REFERENCE" ELSE "RETOPO", FALSE).id

\* C8: a setting read right after it was given the value v reads v, with or
\* without a material or modifier for it; v is in the stored value and in
\* the live material or modifier that the getter reads
C8_SettingsRoundTrip ==
    last.op = "WriteSetting" =>
        /\ \A w \in BOOLEAN : Getter(last.key, w).val = last.val
        /\ last.key \in DOMAIN stored
        /\ stored[last.key] = last.val
        /\ (last.key \in ModifierKeys
              /\ get_modifier(mods, active, KindOf(last.key)) # NoModifier)
             => Live(get_modifier(mods, active, KindOf(last.key)).obj, last.key) = last.val
        /\ (last.key \in {"reference_blend", "retopo_blend"}
              /\ ReadMaterial(last.key) # NoMaterial)
             => matdata[ReadMaterial(last.key)].blend_method = BlendMethod(last.val)
        /\ (last.key \in ColorKeys /\ ReadMaterial(last.key) # NoMaterial)
             => /\ matdata[ReadMaterial(last.key)].base_color[1] = last.val[1]
                /\ matdata[ReadMaterial(last.key)].alpha = last.val[2]

\* a colour other than the stored one has been written while the reference
\* material is on the remembered reference object only
C8_Witness ==
    /\ last.op = "WriteSetting"
    /\ last.key = "reference_color"
    /\ last.val # ReferenceColorDefault
    /\ active = None
    /\ ReadMaterial("reference_color") # NoMaterial

\* C9: after Add Retopo Materials each retopo modifier shows and measures
\* what the stored setting says, the declared default when nothing was
\* stored, also when the modifier was there before with other live values
C9_ModifiersSetUpAgain ==
    last.op = "AddRetopoMaterials" =>
        \A key \in ModifierKeys :
            /\ Carries(last.obj, ModifierName(KindOf(key)))
            /\ Live(last.obj, key) = StoredOrDefault(key)

\* Add Retopo Materials has run on an object that had a retopo modifier with
\* live values other than the stored ones
C9_Witness ==
    /\ last.op = "AddRetopoMaterials"
    /\ last.val = TRUE
    /\ DOMAIN stored # {}

----------------------------------------------------------------------------
(* Properties of the update handler *)

\* C10: the update handler changes at most one remembered name: the
\* reference name when the active object is a mesh with a reference
\* material, else the retopo name when it is a mesh with a retopo or
\* wireframe material or a retopo modifier, else none
C10_UpdateHandler ==
    [][last'.op = "update_handler" =>
        IF active \in Meshes /\ HasMaterial(active, "REFERENCE")
        THEN /\ reference_object_name' = active
             /\ retopo_object_name' = retopo_object_name
        ELSE IF /\ active \in Meshes
                /\ \/ HasMaterial(active, "RETOPO")
                   \/ HasMaterial(active, "WIREFRAME")
                   \/ \E n \in ModifierNames : Carries(active, n)
        THEN /\ retopo_object_name' = active
             /\ reference_object_name' = reference_object_name
        ELSE /\ reference_object_name' = reference_object_name
             /\ retopo_object_name' = retopo_object_name
    ]_vars

\* the handler has run on an object with a reference material and retopo
\* modifiers, and on another with a retopo modifier only
C10_Witness ==
    /\ last.op = "update_handler"
    /\ last.obj \in Meshes
    /\ HasMaterial(last.obj, "REFERENCE")
    /\ \E n \in ModifierNames : Carries(last.obj, n)
    /\ reference_object_name = last.obj
    /\ retopo_object_name \in Meshes \ {last.obj}
    /\ slots[retopo_object_name] = <<1>>

----------------------------------------------------------------------------
(* Properties of the registration *)

\* C11: while the add-on is registered the update handler is installed on
\* the depsgraph-update event, so that an update with an active mesh that
\* has a reference material remembers it as the reference object, and one
\* with a retopo material or modifier as the retopo object; once the add-on
\* is unregistered the handler is not installed
C11_HandlerInstalled ==
    [][/\ registered' # {} => \E i \in 1..Len(handlers') : handlers'[i] = "update_handler"
       /\ registered' = {} => \A i \in 1..Len(handlers') : handlers'[i] # "update_handler"
       /\ (/\ last'.op \in {"depsgraph_update", "update_handler"}
           /\ registered # {}
           /\ active \in Meshes)
          => /\ HasMaterial(active, "REFERENCE") => reference_object_name' = active
             /\ (/\ ~HasMaterial(active, "REFERENCE")
                 /\ \/ HasMaterial(active, "RETOPO")
                    \/ \E n \in ModifierNames : Carries(active, n))
                => retopo_object_name' = active
    ]_vars

----------------------------------------------------------------------------
(* Properties of Poly Strip *)

\* C12: a point is recorded only by a mouse-move whose ray cast hits the
\* surface object picked by an earlier press: a point list that is not empty
\* comes with a picked object, a move without a picked object records
\* nothing, and a press or a move that misses changes neither the picked
\* object nor the points
C12_PointsNeedSurface ==
    [][/\ strip'.points # <<>> => strip'.object # None
       /\ (strip'.points # strip.points /\ last'.op # "PolyStripInvoke")
            => /\ last'.op = "PolyStripMove"
               /\ last'.key = "hit"
               /\ strip.object # None
               /\ Len(strip'.points) = Len(strip.points) + 1
               /\ SubSeq(strip'.points, 1, Len(strip.points)) = strip.points
       /\ (last'.op = "PolyStripMove" /\ strip.object = None)
            => (strip'.points = <<>> /\ strip'.object = None)
       /\ (last'.op \in {"PolyStripPress", "PolyStripMove"} /\ last'.key = "miss")
            => (strip'.object = strip.object /\ strip'.points = strip.points)
    ]_vars

\* two points have been recorded by mouse-moves on the picked surface
C12_Witness ==
    /\ strip.running
    /\ strip.object = "B"
    /\ Len(strip.points) = 2
    /\ last.op = "PolyStripMove"
    /\ last.key = "hit"

----------------------------------------------------------------------------
(* Properties of Sort Modifiers *)

\* the modifiers of a stack that satisfy a test, in their order
RECURSIVE Keep(_, _)
Keep(stack, names) ==
    IF stack = <<>> THEN <<>>
    ELSE (IF Head(stack).name \in names THEN <<Head(stack)>> ELSE <<>>)
         \o Keep(Tail(stack), names)

\* C13: after Sort Modifiers has run on a mesh, the retopo modifiers it holds
\* are the last of the stack, in the order Displace, Solidify, Wireframe, and
\* every other modifier comes before them in the order it had
C13_SortModifiers ==
    [][(last'.op = "SortModifiers" /\ active \in Meshes)
        => mods'[active] =
              Keep(mods[active], NameSet(mods[active]) \ ModifierNames)
              \o Keep(mods[active], {ModifierName("DISPLACE")})
              \o Keep(mods[active], {ModifierName("SOLIDIFY")})
              \o Keep(mods[active], {ModifierName("WIREFRAME")})
    ]_vars

\* Sort Modifiers has moved modifiers on a stack that holds a modifier of
\* the user, Displace and Wireframe, and no Solidify
C13_Witness ==
    /\ last.op = "SortModifiers"
    /\ active = "A"
    /\ last.key = "moved"
    /\ Names(mods["A"]) = <<<<"Mirror">>, ModifierName("DISPLACE"), ModifierName("WIREFRAME")>>

----------------------------------------------------------------------------
(* Properties of the operators' polls *)

MaterialOperators == {"AddReferenceMaterial", "AddRetopoMaterials", "RemoveMaterials"}

\* C14: the material operators are applicable exactly when the active object
\* is a mesh in object mode and Poly Strip exactly when it is a mesh in edit
\* mode; none of them runs without an active mesh in its mode, and in no
\* state are Poly Strip and a material operator applicable together
C14_OperatorGates ==
    [][/\ PollObjectMode <=> (active \in Meshes /\ mode[active] = "OBJECT")
       /\ PollPolyStrip <=> (active \in Meshes /\ mode[active] = "EDIT")
       /\ ~(PollObjectMode /\ PollPolyStrip)
       /\ last'.op \in MaterialOperators
            => (active \in Meshes /\ mode[active] = "OBJECT")
       /\ last'.op = "PolyStripInvoke"
            => (active \in Meshes /\ mode[active] = "EDIT")
    ]_vars

\* Poly Strip has started on a mesh in edit mode that a material operator
\* gave the retopo materials while it was in object mode
C14_Witness ==
    /\ last.op = "PolyStripInvoke"
    /\ active = "A"
    /\ mode["A"] = "EDIT"
    /\ HasMaterial("A", "RETOPO")
    /\ strip.running

----------------------------------------------------------------------------
(* Properties of Flip Normals *)

\* C15: Flip Normals run in edit mode with at least one face selected flips
\* exactly the selected faces: each selected face changes its orientation,
\* each unselected face keeps it, and no face is added, removed or reselected
C15_FlipSelected ==
    [][(/\ last'.op = "FlipNormals"
        /\ mode[active] = "EDIT"
        /\ \E i \in 1..Len(faces[active]) : faces[active][i].select)
        => /\ Len(faces'[active]) = Len(faces[active])
           /\ \A i \in 1..Len(faces[active]) :
                 /\ faces'[active][i].select = faces[active][i].select
                 /\ faces'[active][i].flipped =
                       (faces[active][i].flipped # faces[active][i].select)
           /\ \A o \in Meshes \ {active} : faces'[o] = faces[o]
    ]_vars

\* Flip Normals has run in edit mode on a mesh with one face selected and
\* one not: the selected face is flipped and the other is as it was
C15_Witness ==
    /\ last.op = "FlipNormals"
    /\ last.key = "selected"
    /\ active = "A"
    /\ mode["A"] = "EDIT"
    /\ faces["A"] = <<[select |-> TRUE, flipped |-> TRUE],
                      [select |-> FALSE, flipped |-> FALSE]>>

\* C16: when the Poly Strip operator has ended, by the release that bakes or
\* by right mouse button or ESC, no draw handler of it is installed
C16_DrawHandlerRemoved ==
    ~strip.running => draw_handlers = 0

\* C17: the bake is reached from the modal loop only with at least one
\* recorded point
C17_BakeNeedsPoint ==
    last.op = "PolyStripExecute" => Len(strip.points) >= 1

----------------------------------------------------------------------------
(* Properties of the shrinkwrap chain *)

\* the modifiers of a stack that carry a name or a numbered copy of it
Copies(stack, name) == {j \in 1..Len(stack) : StartsWith(stack[j].name, name)}

\* C18: the shrinkwrap chain is found or created: after setup_shrinkwrap the
\* object holds exactly one modifier for each of the three chain names, also
\* when it held chain modifiers before
C18_ChainFoundOrCreated ==
    last.op = "QuickShrinkwrapInvoke"
        => \A i \in 1..3 :
              Cardinality(Copies(mods[last.obj], ShrinkwrapModifiers[i])) = 1

====
